---------------------------- MODULE Spec2Model ----------------------------
(***************************************************************************)
(* QuarterBand (src/app.py): the fetch / filter / score / rank pipeline of *)
(* the index() handler, fetch_snapshot, is_quality, probability_score and  *)
(* fetch_hourly_candles, plus the refresh scheduler of spec section 4.6.   *)
(*                                                                         *)
(* Units.  Floats are modelled in fixed point:                             *)
(*   prices (price, bid, ask, open, high, low)  : 1/1000 dollar            *)
(*   volume                                     : 1000 base units          *)
(*   price * volume                             : dollars                  *)
(*   ratios and probabilities                   : 1/Scale (1/10000)        *)
(*   spread_pct                                 : an exact fraction        *)
(*                                                [num, den]               *)
(*   MAX_SPREAD_PCT                             : 1/Scale                  *)
(***************************************************************************)
EXTENDS Integers, Sequences, FiniteSets, TLC

VARIABLES
    cfg,          \* the env-tunable configuration (app.py 24-41)
    upstream,     \* what the exchange can answer: catalog, readings
    \* ---- one call of fetch_snapshot / is_quality / probability_score
    raw_t,        \* ticker payload
    raw_s,        \* stats payload
    snap,         \* the snapshot under test
    prob,         \* result of probability_score
    quality,      \* result of is_quality
    upc,          \* position of the single-function run
    \* ---- index()
    pc,           \* position in index()
    products,     \* result of list_usd_products()
    idx,          \* loop index (fetch loop, seasonality loop)
    all_snaps,
    eff_min,
    eff_max,
    candidates,
    widenings,    \* number of iterations of the widening loop so far
    ranked_input,
    ranked,
    \* ---- fetch_hourly_candles
    c_in,         \* arguments: days, gran, now
    remaining,
    cursor_end,
    candles,
    windows,      \* the (start, end) windows requested so far
    cpc,
    \* ---- refresh scheduler (spec 4.6)
    sstate,       \* "idle" | "running"
    clock,        \* cycle number, the refresh timestamp
    cache,        \* the shared refresh cache
    seen,         \* what the last reader observed
    completed,    \* results of the cycles that ran to completion
    last          \* outcome of the last cycle: "none" | "ok" | "failed"

unitVars    == <<raw_t, raw_s, snap, prob, quality, upc>>
handlerVars == <<pc, products, idx, all_snaps, eff_min, eff_max, candidates,
                 widenings, ranked_input, ranked>>
candleVars  == <<c_in, remaining, cursor_end, candles, windows, cpc>>
schedVars   == <<sstate, clock, cache, seen, completed, last>>
vars == <<cfg, upstream, unitVars, handlerVars, candleVars, schedVars>>

---------------------------------------------------------------------------
(* Fixed point and small helpers *)

Scale == 10 ^ 4

Max2(a, b) == IF a >= b THEN a ELSE b
Min2(a, b) == IF a <= b THEN a ELSE b

\* ceil(a / b) for b > 0
CeilDiv(a, b) == (a + b - 1) \div b

\* an exact fraction n/d with d > 0
Frac(n, d) == [num |-> n, den |-> d]
FracGT(f, x) == f.num * Scale > x * f.den      \* f > x/Scale
FracGE0(f) == f.num >= 0
FracEq(f, n, d) == f.num * d = n * f.den

\* a payload field: a number, absent, or not parsable as a float
Num(n)  == [kind |-> "num", val |-> n]
Missing == [kind |-> "missing", val |-> 0]
Bad     == [kind |-> "bad", val |-> 0]

None == [kind |-> "none"]

---------------------------------------------------------------------------
(* Configuration: app.py 24-41.  Defaults as in the source. *)

DEFAULT_PRICE_MIN == 100
DEFAULT_PRICE_MAX == 250
DEFAULT_TOP_K == 5
DEFAULT_MIN_COUNT == 5
DEFAULT_EXPAND_STEP == 50
DEFAULT_MAX_PRICE_CAP == 400
DEFAULT_MIN_24H_DOLLAR_VOL == 10000000
DEFAULT_MAX_SPREAD_PCT == 100
DEFAULT_SYMBOL_BLACKLIST ==
    {"USLESS", "COOKIE", "PNUT", "PEPE", "SHIB", "FLOKI", "WIF", "BONK"}

DefaultConfig ==
    [PRICE_MIN          |-> DEFAULT_PRICE_MIN,
     PRICE_MAX          |-> DEFAULT_PRICE_MAX,
     TOP_K              |-> DEFAULT_TOP_K,
     MIN_COUNT          |-> DEFAULT_MIN_COUNT,
     EXPAND_STEP        |-> DEFAULT_EXPAND_STEP,
     MAX_PRICE_CAP      |-> DEFAULT_MAX_PRICE_CAP,
     MIN_24H_DOLLAR_VOL |-> DEFAULT_MIN_24H_DOLLAR_VOL,
     MAX_SPREAD_PCT     |-> DEFAULT_MAX_SPREAD_PCT,
     SYMBOL_WHITELIST   |-> {},
     SYMBOL_BLACKLIST   |-> DEFAULT_SYMBOL_BLACKLIST]

---------------------------------------------------------------------------
(* fetch_snapshot: app.py 93-121 *)

\* f(d, k, dflt=0.0): float(d.get(k, dflt)), dflt when that raises
F(d, k) == IF d[k].kind = "num" THEN d[k].val ELSE 0

\* twice mid, so that it stays integral: mid = (bid+ask)/2 if both > 0
\* else (price or 0.0)
Mid2(price, bid, ask) ==
    IF bid > 0 /\ ask > 0 THEN bid + ask ELSE 2 * price

\* the literal 1.0 of line 108: "100% if unknown"
FETCH_UNKNOWN_SPREAD == Frac(1, 1)

SpreadPct_unknown_is_zero(price, bid, ask) ==
    IF bid > 0 /\ ask > 0 /\ Mid2(price, bid, ask) > 0
    THEN Frac(2 * (ask - bid), Mid2(price, bid, ask))
    ELSE Frac(0, 1)

\* spread_pct = (ask - bid) / mid if bid > 0 and ask > 0 and mid > 0 else 1.0
SpreadPct(price, bid, ask) ==
    IF bid > 0 /\ ask > 0 /\ Mid2(price, bid, ask) > 0
    THEN Frac(2 * (ask - bid), Mid2(price, bid, ask))
    ELSE FETCH_UNKNOWN_SPREAD

fetch_snapshot(pair, t, s) ==
    [pair       |-> pair,
     price      |-> F(t, "price"),
     open       |-> F(s, "open"),
     high       |-> F(s, "high"),
     low        |-> F(s, "low"),
     volume     |-> F(s, "volume"),
     bid        |-> F(t, "bid"),
     ask        |-> F(t, "ask"),
     spread_pct |-> SpreadPct(F(t, "price"), F(t, "bid"), F(t, "ask"))]

---------------------------------------------------------------------------
(* is_quality: app.py 156-177 *)

\* snap["pair"].split("-")[0].upper(); a pair is <<base, quote>>
BaseOf(pair) == pair[1]

\* the default of snap.get("spread_pct", 1.0), line 174
QUALITY_DEFAULT_SPREAD == Frac(1, 1)

SpreadOf(s) ==
    IF "spread_pct" \in DOMAIN s THEN s.spread_pct ELSE QUALITY_DEFAULT_SPREAD

Blacklisted(s, c) == BaseOf(s.pair) \in c.SYMBOL_BLACKLIST
NotWhitelisted(s, c) ==
    c.SYMBOL_WHITELIST # {} /\ BaseOf(s.pair) \notin c.SYMBOL_WHITELIST
DollarVol(s) == s.price * s.volume
Illiquid(s, c) == DollarVol(s) < c.MIN_24H_DOLLAR_VOL
WideSpread(s, c) == FracGT(SpreadOf(s), c.MAX_SPREAD_PCT)

is_quality_no_spread_gate(s, c) ==
    IF Blacklisted(s, c) THEN FALSE
    ELSE IF NotWhitelisted(s, c) THEN FALSE
    ELSE IF Illiquid(s, c) THEN FALSE
    ELSE TRUE

is_quality(s, c) ==
    IF Blacklisted(s, c) THEN FALSE
    ELSE IF NotWhitelisted(s, c) THEN FALSE
    ELSE IF Illiquid(s, c) THEN FALSE
    ELSE IF WideSpread(s, c) THEN FALSE
    ELSE TRUE

---------------------------------------------------------------------------
(* probability_score: app.py 153-154, 179-202 *)

clamp_unbounded(x, lo, hi) == x

clamp(x, lo, hi) == Max2(lo, Min2(hi, x))

\* log10 of 1..9 in 1/Scale
Log10Digit(d) == <<0, 3010, 4771, 6021, 6990, 7782, 8451, 9031, 9542>>[d]

RECURSIVE Log10Floor(_)
Log10Floor(n) == IF n < 10 THEN 0 ELSE 1 + Log10Floor(n \div 10)

\* math.log10(max(v, 1e-6)) in 1/Scale, v in thousands of base units:
\* characteristic plus the logarithm of the leading digit
Log10Scaled(v) ==
    IF v <= 0 THEN (0 - 6) * Scale
    ELSE (Log10Floor(v) + 3) * Scale
         + Log10Digit(v \div (10 ^ Log10Floor(v)))

Ratio(a, b) == (a * Scale) \div b

\* max(o, 1e-9) is o here: o > 0 is at least one price unit
probability_score(s) ==
    LET p == s.price
        o == s.open
        h == s.high
        l == s.low
        v == s.volume
    IN  IF o <= 0 \/ p <= 0 THEN 500
        ELSE
          LET mom_raw  == clamp(Ratio(p - o, o), 0 - 2000, 2000)
              m        == ((mom_raw + 2000) * Scale) \div 4000
              exp_raw  == clamp(Ratio(h - l, Max2(o, 1)), 0, 2500)
              e        == (exp_raw * Scale) \div 2500
              v_scaled == clamp(Log10Scaled(v) \div 8, 0, Scale)
              score    == (50 * m + 35 * e + 15 * v_scaled) \div 100
          IN  clamp(500 + (90 * score) \div 100, 100, 9900)

---------------------------------------------------------------------------
(* Parts of the state a specification does not exercise *)

NoPayload == [price |-> Missing, bid |-> Missing, ask |-> Missing,
              open |-> Missing, high |-> Missing, low |-> Missing,
              volume |-> Missing]

UnitIdle ==
    /\ raw_t = NoPayload
    /\ raw_s = NoPayload
    /\ snap = None
    /\ prob = 0 - 1
    /\ quality = FALSE
    /\ upc = "off"

HandlerStart(p) ==
    /\ pc = p
    /\ products = <<>>
    /\ idx = 1
    /\ all_snaps = <<>>
    /\ eff_min = 0
    /\ eff_max = 0
    /\ candidates = <<>>
    /\ widenings = 0
    /\ ranked_input = <<>>
    /\ ranked = <<>>

CandleIdle ==
    /\ c_in = [days |-> 0, gran |-> 3600, now |-> 0]
    /\ remaining = 0
    /\ cursor_end = 0
    /\ candles = <<>>
    /\ windows = <<>>
    /\ cpc = "off"

EmptyCache == [ranked |-> <<>>, ts |-> 0]

SchedIdle ==
    /\ sstate = "off"
    /\ clock = 0
    /\ cache = EmptyCache
    /\ seen = EmptyCache
    /\ completed = {}
    /\ last = "none"

NoUpstream == [catalog |-> <<>>, readings |-> {}]

---------------------------------------------------------------------------
(* One call each of fetch_snapshot, is_quality and probability_score on   *)
(* payloads drawn from bounded sets.                                      *)

TestPair == <<"DOGE", "USD">>

\* snap.get("spread_pct", ...) also accepts a dict without the field
WithoutSpread(s) == [k \in DOMAIN s \ {"spread_pct"} |-> s[k]]

UFetch ==
    /\ upc = "fetch"
    /\ snap' = fetch_snapshot(TestPair, raw_t, raw_s)
    /\ upc' = "quality"
    /\ UNCHANGED <<cfg, upstream, raw_t, raw_s, prob, quality,
                   handlerVars, candleVars, schedVars>>

UDropSpread ==
    /\ upc = "quality"
    /\ "spread_pct" \in DOMAIN snap
    /\ snap' = WithoutSpread(snap)
    /\ UNCHANGED <<cfg, upstream, raw_t, raw_s, prob, quality, upc,
                   handlerVars, candleVars, schedVars>>

UQuality ==
    /\ upc = "quality"
    /\ quality' = is_quality(snap, cfg)
    /\ upc' = "score"
    /\ UNCHANGED <<cfg, upstream, raw_t, raw_s, snap, prob,
                   handlerVars, candleVars, schedVars>>

UScore ==
    /\ upc = "score"
    /\ prob' = probability_score(snap)
    /\ upc' = "done"
    /\ UNCHANGED <<cfg, upstream, raw_t, raw_s, snap, quality,
                   handlerVars, candleVars, schedVars>>

UnitNext == UFetch \/ UDropSpread \/ UQuality \/ UScore

UnitInitRest ==
    /\ upstream = NoUpstream
    /\ snap = None
    /\ prob = 0 - 1
    /\ quality = FALSE
    /\ upc = "fetch"
    /\ HandlerStart("off")
    /\ CandleIdle
    /\ SchedIdle

\* ---- probability_score over prices and stats, zero and negative included
ScorePrices  == {0 - 100, 0, 1, 150, 200, 5000}
ScoreOpens   == {0 - 100, 0, 1, 150, 200, 5000}
ScoreHighs   == {0, 160, 210, 9000}
ScoreLows    == {0, 140, 400}
ScoreVolumes == {0 - 5, 0, 1, 70, 100000, 200000}

ScoreInit ==
    /\ cfg = DefaultConfig
    /\ \E p \in ScorePrices :
         raw_t = [NoPayload EXCEPT !.price = Num(p)]
    /\ \E o \in ScoreOpens, h \in ScoreHighs, l \in ScoreLows,
          v \in ScoreVolumes :
         raw_s = [NoPayload EXCEPT !.open = Num(o), !.high = Num(h),
                                   !.low = Num(l), !.volume = Num(v)]
    /\ UnitInitRest

ScoreSpec == ScoreInit /\ [][UnitNext]_vars

\* ---- fetch_snapshot and the spread gate over ticker payloads
BookFields == {Missing, Bad, Num(0 - 5), Num(0), Num(199), Num(200),
               Num(998), Num(1002)}
SnapPrices == {Missing, Num(0), Num(200), Num(1000)}
SpreadLimits == {0 - 1, 0, 35, 100, 3500, 9999, 10000}

LiquidStats == [NoPayload EXCEPT !.open = Num(180), !.high = Num(210),
                                 !.low = Num(170), !.volume = Num(100000)]

SnapInit ==
    /\ \E m \in SpreadLimits :
         cfg = [DefaultConfig EXCEPT !.MAX_SPREAD_PCT = m]
    /\ \E p \in SnapPrices, b \in BookFields, a \in BookFields :
         raw_t = [NoPayload EXCEPT !.price = p, !.bid = b, !.ask = a]
    /\ raw_s = LiquidStats
    /\ UnitInitRest

SnapSpec == SnapInit /\ [][UnitNext]_vars

---------------------------------------------------------------------------
(* C1 *)

\* C1: for every snapshot with finite price, open, high, low and volume
\* (zero or negative price or open, high < low and zero volume included)
\* probability_score returns a value in [0.01, 0.99], and the fixed floor
\* 0.05 when price <= 0 or open <= 0.
C1_ProbabilityInRange ==
    upc = "done" =>
        /\ prob >= 100
        /\ prob <= 9900
        /\ (snap.price <= 0 \/ snap.open <= 0 => prob = 500)

\* a scored snapshot with high < low, zero volume and a price far above open
C1_Witness_Extremes ==
    /\ upc = "done"
    /\ snap.high < snap.low
    /\ snap.volume = 0
    /\ snap.open > 0
    /\ snap.price > 20 * snap.open
    /\ prob > 500

\* a scored snapshot with a non-positive open
C1_Witness_Floor ==
    /\ upc = "done"
    /\ snap.open <= 0
    /\ snap.price > 0
    /\ prob = 500

---------------------------------------------------------------------------
(* The exchange: the product catalog and the payloads it can answer with *)

MaxProducts == 3

Bases == <<"DOGE", "PEPE", "ADA", "XLM", "XRP">>

RawProduct(base, quote, status, disabled) ==
    [id |-> <<base, quote>>, base_currency |-> base,
     quote_currency |-> quote, status |-> status,
     trading_disabled |-> disabled]

\* MaxProducts tradable USD markets, then three that the filter drops
Catalog ==
    [i \in 1..MaxProducts |-> RawProduct(Bases[i], "USD", "online", FALSE)]
    \o <<RawProduct("DOGE", "EUR", "online", FALSE),
         RawProduct("LTC", "USD", "delisted", FALSE),
         RawProduct("ICP", "USD", "online", TRUE)>>

Reading(price, bid, ask, open, high, low, volume) ==
    [t |-> [NoPayload EXCEPT !.price = Num(price), !.bid = bid, !.ask = ask],
     s |-> [NoPayload EXCEPT !.open = Num(open), !.high = Num(high),
                             !.low = Num(low), !.volume = Num(volume)]]

Readings ==
    {Reading(200, Num(199), Num(200), 180, 210, 170, 100000),
     Reading(200, Num(199), Num(200), 180, 210, 170, 200000),
     Reading(300, Num(299), Num(300), 200, 320, 190, 100000),
     Reading(200, Missing, Num(201), 180, 210, 170, 100000),
     Reading(200, Num(199), Num(200), 180, 210, 170, 10),
     Reading(120, Num(120), Num(120), 0, 130, 110, 100000)}

Exchange == [catalog |-> Catalog, readings |-> Readings]

---------------------------------------------------------------------------
(* list_usd_products: app.py 80-91 *)

IsActiveUsd(p) ==
    /\ p.quote_currency = "USD"
    /\ p.status = "online"
    /\ ~ p.trading_disabled

list_usd_products(catalog) ==
    LET kept == SelectSeq(catalog, IsActiveUsd)
    IN  [i \in 1..Len(kept) |-> [id |-> kept[i].id,
                                 base |-> kept[i].base_currency]]

---------------------------------------------------------------------------
(* index(): app.py 364-410 *)

MaxWiden == 16

\* coinbase_links: app.py 123-128
coinbase_links(pair) ==
    [advanced |-> <<"advanced-trade/spot", pair>>,
     price    |-> <<"price", BaseOf(pair)>>]

\* eff_min <= s["price"] <= eff_max, lines 380-381 and 384
InWindow(snaps, lo, hi) ==
    SelectSeq(snaps, LAMBDA s : lo <= s.price /\ s.price <= hi)

Quality(snaps, c) == SelectSeq(snaps, LAMBDA s : is_quality(s, c))

\* sorted(..., key=prob, reverse=True): stable, so entries of equal prob
\* keep the order they had in ranked_input
RECURSIVE InsertByProb(_, _)
InsertByProb(sorted, x) ==
    IF sorted = <<>> THEN <<x>>
    ELSE IF Head(sorted).prob >= x.prob
         THEN <<Head(sorted)>> \o InsertByProb(Tail(sorted), x)
         ELSE <<x>> \o sorted

RECURSIVE SortedByProbDesc(_)
SortedByProbDesc(s) ==
    IF s = <<>> THEN <<>>
    ELSE InsertByProb(SortedByProbDesc(SubSeq(s, 1, Len(s) - 1)), s[Len(s)])

\* the slice [:k]
Prefix(s, k) ==
    IF k >= 0 THEN SubSeq(s, 1, Min2(k, Len(s)))
    ELSE SubSeq(s, 1, Max2(Len(s) + k, 0))

Rank(input, c) == Prefix(SortedByProbDesc(input), c.TOP_K)

\* line 366, cb_get raises (non-2xx, timeout, malformed payload): index()
\* has no handler around list_usd_products()
ListProductsRaise ==
    /\ pc = "list"
    /\ pc' = "raised"
    /\ UNCHANGED <<cfg, upstream, unitVars, products, idx, all_snaps, eff_min,
                   eff_max, candidates, widenings, ranked_input, ranked,
                   candleVars, schedVars>>

ListProducts ==
    /\ pc = "list"
    /\ products' = list_usd_products(upstream.catalog)
    /\ idx' = 1
    /\ pc' = IF products' = <<>> THEN "filter" ELSE "fetch"
    /\ UNCHANGED <<cfg, upstream, unitVars, all_snaps, eff_min, eff_max,
                   candidates, widenings, ranked_input, ranked,
                   candleVars, schedVars>>

AfterFetch == IF idx = Len(products) THEN "filter" ELSE "fetch"

\* lines 368-370: one iteration, both cb_get calls answered
FetchSnapshot ==
    /\ pc = "fetch"
    /\ \E r \in upstream.readings :
         all_snaps' = Append(all_snaps,
                             fetch_snapshot(products[idx].id, r.t, r.s))
    /\ idx' = idx + 1
    /\ pc' = AfterFetch
    /\ UNCHANGED <<cfg, upstream, unitVars, products, eff_min, eff_max,
                   candidates, widenings, ranked_input, ranked,
                   candleVars, schedVars>>

\* lines 371-372: one iteration, a cb_get raised: except Exception: continue
FetchSnapshotRaise ==
    /\ pc = "fetch"
    /\ idx' = idx + 1
    /\ pc' = AfterFetch
    /\ UNCHANGED <<cfg, upstream, unitVars, products, all_snaps, eff_min,
                   eff_max, candidates, widenings, ranked_input, ranked,
                   candleVars, schedVars>>

\* line 375
Filter ==
    /\ pc = "filter"
    /\ all_snaps' = Quality(all_snaps, cfg)
    /\ pc' = "window"
    /\ UNCHANGED <<cfg, upstream, unitVars, products, idx, eff_min, eff_max,
                   candidates, widenings, ranked_input, ranked,
                   candleVars, schedVars>>

\* lines 378-381
Window ==
    /\ pc = "window"
    /\ eff_min' = cfg.PRICE_MIN
    /\ eff_max' = cfg.PRICE_MAX
    /\ candidates' = InWindow(all_snaps, cfg.PRICE_MIN, cfg.PRICE_MAX)
    /\ pc' = "widen"
    /\ UNCHANGED <<cfg, upstream, unitVars, products, idx, all_snaps,
                   widenings, ranked_input, ranked, candleVars, schedVars>>

\* the loop condition of line 382
MustWiden == Len(candidates) < cfg.MIN_COUNT /\ eff_max < cfg.MAX_PRICE_CAP

\* line 383
NextEffMax(m, c) == Min2(m + c.EXPAND_STEP, c.MAX_PRICE_CAP)

\* lines 382-384: one iteration of the loop
Widen ==
    /\ pc = "widen"
    /\ MustWiden
    /\ widenings < MaxWiden
    /\ eff_max' = NextEffMax(eff_max, cfg)
    /\ candidates' = InWindow(all_snaps, eff_min, eff_max')
    /\ widenings' = widenings + 1
    /\ UNCHANGED <<cfg, upstream, unitVars, pc, products, idx, all_snaps,
                   eff_min, ranked_input, ranked, candleVars, schedVars>>

\* line 382: the loop condition is false
WidenExit ==
    /\ pc = "widen"
    /\ ~ MustWiden
    /\ pc' = "score"
    /\ UNCHANGED <<cfg, upstream, unitVars, products, idx, all_snaps, eff_min,
                   eff_max, candidates, widenings, ranked_input, ranked,
                   candleVars, schedVars>>

\* lines 387-393
Scored(s) ==
    s @@ [prob |-> probability_score(s), links |-> coinbase_links(s.pair)]

Score ==
    /\ pc = "score"
    /\ ranked_input' = [i \in 1..Len(candidates) |-> Scored(candidates[i])]
    /\ pc' = "rank"
    /\ UNCHANGED <<cfg, upstream, unitVars, products, idx, all_snaps, eff_min,
                   eff_max, candidates, widenings, ranked, candleVars,
                   schedVars>>

AfterRank(r) == IF r = <<>> THEN "render" ELSE "season"

\* line 396
RankStep ==
    /\ pc = "rank"
    /\ ranked' = Rank(ranked_input, cfg)
    /\ idx' = 1
    /\ pc' = AfterRank(ranked')
    /\ UNCHANGED <<cfg, upstream, unitVars, products, all_snaps, eff_min,
                   eff_max, candidates, widenings, ranked_input,
                   candleVars, schedVars>>

\* hourly_seasonality (207-257) answers a profile, or None when the candle
\* fetch raised or came back empty; it raises nothing
SeasonOutcomes == {None, [kind |-> "profile"]}

\* lines 399-401: one iteration
Season ==
    /\ pc = "season"
    /\ \E season \in SeasonOutcomes :
         ranked' = [ranked EXCEPT ![idx] = @ @@ [seasonality |-> season]]
    /\ idx' = idx + 1
    /\ pc' = IF idx = Len(ranked) THEN "render" ELSE "season"
    /\ UNCHANGED <<cfg, upstream, unitVars, products, all_snaps, eff_min,
                   eff_max, candidates, widenings, ranked_input,
                   candleVars, schedVars>>

\* lines 403-410
Render ==
    /\ pc = "render"
    /\ pc' = "done"
    /\ UNCHANGED <<cfg, upstream, unitVars, products, idx, all_snaps, eff_min,
                   eff_max, candidates, widenings, ranked_input, ranked,
                   candleVars, schedVars>>

Pipeline ==
    \/ ListProductsRaise
    \/ ListProducts
    \/ FetchSnapshot
    \/ FetchSnapshotRaise
    \/ Filter
    \/ Window
    \/ Widen
    \/ WidenExit
    \/ Score
    \/ RankStep

Next == Pipeline \/ Season \/ Render

\* configurations of the environment: the defaults and variations of them
Configs ==
    {DefaultConfig,
     [DefaultConfig EXCEPT !.MIN_COUNT = 1, !.TOP_K = 1,
                           !.SYMBOL_BLACKLIST = {}],
     [DefaultConfig EXCEPT !.MIN_COUNT = 2, !.TOP_K = 2,
                           !.SYMBOL_BLACKLIST = {}],
     [DefaultConfig EXCEPT !.MAX_PRICE_CAP = 1000],
     [DefaultConfig EXCEPT !.EXPAND_STEP = 30, !.SYMBOL_BLACKLIST = {}],
     [DefaultConfig EXCEPT !.EXPAND_STEP = 0],
     [DefaultConfig EXCEPT !.EXPAND_STEP = 0 - 50, !.SYMBOL_BLACKLIST = {}],
     [DefaultConfig EXCEPT !.SYMBOL_WHITELIST = {"ADA", "DOGE"}],
     [DefaultConfig EXCEPT !.MAX_PRICE_CAP = 200]}

Init ==
    /\ cfg \in Configs
    /\ upstream = Exchange
    /\ UnitIdle
    /\ HandlerStart("list")
    /\ CandleIdle
    /\ SchedIdle

Spec == Init /\ [][Next]_vars

---------------------------------------------------------------------------
(* C2 *)

PassesGates(r, c, hi) ==
    /\ ~ Blacklisted(r, c)
    /\ ~ NotWhitelisted(r, c)
    /\ c.PRICE_MIN <= r.price
    /\ r.price <= hi
    /\ ~ Illiquid(r, c)
    /\ ~ WideSpread(r, c)

\* C2 as stated: no asset of the ranked list fails any of the gates
\* blacklist, whitelist, price in [PRICE_MIN, PRICE_MAX], 24h dollar volume,
\* spread.
C2_Original_ConfiguredBand ==
    \A i \in 1..Len(ranked) : PassesGates(ranked[i], cfg, cfg.PRICE_MAX)

\* C2 amended: every asset of the ranked list passes the blacklist, the
\* whitelist, the liquidity and the spread gate, and its price lies in
\* [PRICE_MIN, eff_max], eff_max being the upper bound the widening loop
\* ended with, which is at most max(PRICE_MAX, MAX_PRICE_CAP).
C2_GatesComposeWithEffectiveBand ==
    /\ \A i \in 1..Len(ranked) : PassesGates(ranked[i], cfg, eff_max)
    /\ eff_max <= Max2(cfg.PRICE_MAX, cfg.MAX_PRICE_CAP)

\* a finished request that ranked an asset above PRICE_MAX while a whitelist
\* was in force
C2_Witness_RankedAfterWidening ==
    /\ pc = "done"
    /\ cfg.SYMBOL_WHITELIST # {}
    /\ Len(products) > Len(ranked)
    /\ \E i \in 1..Len(ranked) : ranked[i].price > cfg.PRICE_MAX

---------------------------------------------------------------------------
(* C3 *)

\* ceil((MAX_PRICE_CAP - PRICE_MAX) / EXPAND_STEP), for a positive step
WideningBound(c) ==
    CeilDiv(Max2(c.MAX_PRICE_CAP - c.PRICE_MAX, 0), c.EXPAND_STEP)

\* C3: for every configuration the widening loop halts after at most
\* ceil((MAX_PRICE_CAP - PRICE_MAX) / EXPAND_STEP) widenings, and eff_max
\* strictly increases on every widening.
C3_WideningBoundedAndIncreasing ==
    [][Widen => /\ eff_max' > eff_max
                /\ cfg.EXPAND_STEP > 0 => widenings' <= WideningBound(cfg)]_vars

---------------------------------------------------------------------------
(* C4 *)

\* a ranks strictly before b: higher prob, or equal prob and more 24h
\* dollar volume
RanksBefore(a, b) ==
    \/ a.prob > b.prob
    \/ a.prob = b.prob /\ DollarVol(a) > DollarVol(b)

Included(x) == \E i \in 1..Len(ranked) : ranked[i].pair = x.pair

\* C4: the ranked list is the candidates by descending prob, equal prob by
\* descending 24h dollar volume, cut to TOP_K: at most TOP_K entries, no
\* omitted candidate ranks before an included one, and of two adjacent
\* entries with equal prob the earlier has the larger or equal dollar volume.
C4_RankedByProbThenVolume ==
    pc \in {"season", "render", "done"} =>
        /\ Len(ranked) <= cfg.TOP_K
        /\ \A i \in 1..(Len(ranked) - 1) :
               ~ RanksBefore(ranked[i + 1], ranked[i])
        /\ \A j \in 1..Len(ranked_input) :
               ~ Included(ranked_input[j]) =>
                   \A i \in 1..Len(ranked) :
                       ~ RanksBefore(ranked_input[j], ranked[i])

---------------------------------------------------------------------------
(* C6 *)

\* C6: whichever upstream call fails, a request to index() completes with
\* a ranked list and surfaces no exception to the HTTP layer.
C6_NoExceptionSurfaces == pc # "raised"

---------------------------------------------------------------------------
(* C10 *)

IsSubSeqSet(a, b) == \A i \in 1..Len(a) : \E j \in 1..Len(b) : a[i] = b[j]

\* C10: when the widening loop exits, the candidates number MIN_COUNT or
\* more or eff_max has reached MAX_PRICE_CAP; eff_min stays PRICE_MIN,
\* eff_max never exceeds max(PRICE_MAX, MAX_PRICE_CAP), each widening keeps
\* every candidate it had, and none happens once MIN_COUNT is met.
C10_WideningLoopContract ==
    [][/\ WidenExit => \/ Len(candidates) >= cfg.MIN_COUNT
                       \/ eff_max >= cfg.MAX_PRICE_CAP
       /\ Widen => /\ Len(candidates) < cfg.MIN_COUNT
                   /\ IsSubSeqSet(candidates, candidates')
                   /\ eff_min' = cfg.PRICE_MIN
                   /\ eff_max' <= Max2(cfg.PRICE_MAX, cfg.MAX_PRICE_CAP)]_vars

---------------------------------------------------------------------------
(* C5 *)

\* C5: spread_pct is in percent, (ask - bid) / mid * 100, and compared with
\* MAX_SPREAD_PCT in that unit: bid 0.998 and ask 1.002 give spread_pct 0.4,
\* and with MAX_SPREAD_PCT 0.35 the spread gate of is_quality rejects it.
C5_SpreadInPercent ==
    /\ upc = "done"
    /\ "spread_pct" \in DOMAIN snap
    /\ snap.price = 1000
    /\ snap.bid = 998
    /\ snap.ask = 1002
    /\ cfg.MAX_SPREAD_PCT = 3500
    => /\ FracEq(snap.spread_pct, 4, 10)
       /\ WideSpread(snap, cfg)
       /\ ~ quality

---------------------------------------------------------------------------
(* C9 *)

\* the book side is missing, unparsable or non-positive in the payload
NoSide(f) == f.kind # "num" \/ f.val <= 0
UnknownBook(t) == NoSide(t.bid) \/ NoSide(t.ask)

\* C9: spread_pct is >= 0 whenever bid > 0, ask > 0 and ask >= bid; when a
\* side of the book is missing, unparsable or non-positive fetch_snapshot
\* sets spread_pct to 100%, is_quality uses the same value when the field
\* is absent, and the spread gate rejects such an asset for every
\* MAX_SPREAD_PCT below 100%.
C9_UnknownSpreadPolicy ==
    upc # "fetch" =>
        /\ "spread_pct" \in DOMAIN snap =>
             /\ ~ UnknownBook(raw_t) /\ snap.ask >= snap.bid =>
                    FracGE0(snap.spread_pct)
             /\ UnknownBook(raw_t) => FracEq(snap.spread_pct, 1, 1)
        /\ "spread_pct" \notin DOMAIN snap => FracEq(SpreadOf(snap), 1, 1)
        /\ /\ upc \in {"score", "done"}
           /\ UnknownBook(raw_t) \/ "spread_pct" \notin DOMAIN snap
           /\ cfg.MAX_SPREAD_PCT < Scale
           => WideSpread(snap, cfg) /\ ~ quality

\* a liquid, not blacklisted asset without a bid, rejected under a limit
\* just below 100%
C9_Witness_MissingBid ==
    /\ upc = "done"
    /\ raw_t.bid = Missing
    /\ raw_t.ask = Num(200)
    /\ "spread_pct" \in DOMAIN snap
    /\ snap.price = 200
    /\ cfg.MAX_SPREAD_PCT = 9999
    /\ ~ Illiquid(snap, cfg)
    /\ ~ quality

---------------------------------------------------------------------------
(* fetch_hourly_candles: app.py 131-148.  Times are epoch seconds; a     *)
(* candle row [time, low, high, open, close, volume] is kept as <<time>>. *)

MaxDays == 30
CANDLES_PER_REQUEST == 300
SECONDS_PER_DAY == 86400

\* line 134: int((now - start).total_seconds() // gran), start = now - days
TotalHours(days, gran) == (days * SECONDS_PER_DAY) \div gran

Take_always_full(rem) == CANDLES_PER_REQUEST

\* line 139
Take(rem) == Min2(CANDLES_PER_REQUEST, rem)

\* line 140
CursorStart(end, gran, take) == end - gran * take

\* what the endpoint may answer for a window of take rows starting at
\* start: nothing, or its oldest and newest rows, in either order
CandleResponses(start, gran, take) ==
    LET oldest == start
        newest == start + gran * (take - 1)
    IN  {<<>>, <<<<newest>>, <<oldest>>>>, <<<<oldest>>, <<newest>>>>}

\* candles.sort(key=lambda c: c[0]), line 147: stable, ascending
RECURSIVE InsertByTime(_, _)
InsertByTime(sorted, c) ==
    IF sorted = <<>> THEN <<c>>
    ELSE IF Head(sorted)[1] <= c[1]
         THEN <<Head(sorted)>> \o InsertByTime(Tail(sorted), c)
         ELSE <<c>> \o sorted

RECURSIVE SortedByTime(_)
SortedByTime(s) ==
    IF s = <<>> THEN <<>>
    ELSE InsertByTime(SortedByTime(SubSeq(s, 1, Len(s) - 1)), s[Len(s)])

\* lines 138-146: one iteration, the request answered
CandleRequest ==
    /\ cpc = "loop"
    /\ remaining > 0
    /\ LET take == Take(remaining)
           cursor_start == CursorStart(cursor_end, c_in.gran, take)
       IN  /\ \E data \in CandleResponses(cursor_start, c_in.gran, take) :
                candles' = candles \o data
           /\ windows' = Append(windows, <<cursor_start, cursor_end>>)
           /\ cursor_end' = cursor_start
           /\ remaining' = remaining - take
    /\ UNCHANGED <<cfg, upstream, unitVars, handlerVars, c_in, cpc,
                   schedVars>>

\* line 142: cb_get raises, and fetch_hourly_candles with it (its caller
\* hourly_seasonality catches the exception and answers None)
CandleRaise ==
    /\ cpc = "loop"
    /\ remaining > 0
    /\ cpc' = "raised"
    /\ UNCHANGED <<cfg, upstream, unitVars, handlerVars, c_in, remaining,
                   cursor_end, candles, windows, schedVars>>

\* lines 138, 147-148: the loop is over, sort and return
CandleReturn ==
    /\ cpc = "loop"
    /\ remaining <= 0
    /\ candles' = SortedByTime(candles)
    /\ cpc' = "returned"
    /\ UNCHANGED <<cfg, upstream, unitVars, handlerVars, c_in, remaining,
                   cursor_end, windows, schedVars>>

CandleNext == CandleRequest \/ CandleRaise \/ CandleReturn

CandleNows == {1762 * 10 ^ 6}
CandleGrans == {3600, 7200}

\* lines 132-137
CandleInit ==
    /\ cfg = DefaultConfig
    /\ upstream = NoUpstream
    /\ UnitIdle
    /\ HandlerStart("off")
    /\ SchedIdle
    /\ \E d \in (0 - 1)..MaxDays, g \in CandleGrans, n \in CandleNows :
         /\ c_in = [days |-> d, gran |-> g, now |-> n]
         /\ remaining = TotalHours(d, g)
         /\ cursor_end = n
    /\ candles = <<>>
    /\ windows = <<>>
    /\ cpc = "loop"

CandleSpec == CandleInit /\ [][CandleNext]_vars

---------------------------------------------------------------------------
(* C8 *)

\* the N of the claim: the rows of the lookback
LookbackRows == Max2(TotalHours(c_in.days, c_in.gran), 0)

WindowRows(w) == (w[2] - w[1]) \div c_in.gran

RECURSIVE RowsRequested(_)
RowsRequested(ws) ==
    IF ws = <<>> THEN 0 ELSE WindowRows(Head(ws)) + RowsRequested(Tail(ws))

\* C8: fetch_hourly_candles issues sub-requests of at most 300 rows each,
\* for windows that are contiguous, do not overlap and walk backwards from
\* now; it never issues more than ceil(N/300), and when it returns it has
\* issued exactly ceil(N/300), the windows cover exactly the N rows back
\* from now, and the result is sorted ascending by timestamp.
C8_CandleWindows ==
    cpc # "off" =>
        /\ Len(windows) <= CeilDiv(LookbackRows, CANDLES_PER_REQUEST)
        /\ \A i \in 1..Len(windows) :
              /\ windows[i][1] < windows[i][2]
              /\ (windows[i][2] - windows[i][1]) % c_in.gran = 0
              /\ WindowRows(windows[i]) <= CANDLES_PER_REQUEST
              /\ windows[i][2] = IF i = 1 THEN c_in.now ELSE windows[i - 1][1]
              /\ windows[i][1] >= c_in.now - LookbackRows * c_in.gran
        /\ cpc = "returned" =>
              /\ Len(windows) = CeilDiv(LookbackRows, CANDLES_PER_REQUEST)
              /\ RowsRequested(windows) = LookbackRows
              /\ cursor_end = c_in.now - LookbackRows * c_in.gran
              /\ \A i \in 1..(Len(candles) - 1) :
                     candles[i][1] <= candles[i + 1][1]
              /\ \A i \in 1..Len(candles) :
                     /\ candles[i][1] >= cursor_end
                     /\ candles[i][1] < c_in.now

\* a 30-day lookback returned after three sub-requests whose rows came
\* back newest first
C8_Witness_ThreeRequests ==
    /\ cpc = "returned"
    /\ c_in.days = 30
    /\ c_in.gran = 3600
    /\ Len(windows) = 3
    /\ WindowRows(windows[3]) = 120
    /\ Len(candles) = 6

---------------------------------------------------------------------------
(* Refresh scheduler and refresh cache: spec sections 3, 4.6 and 5.  One  *)
(* cycle runs the pipeline above (product list to ranking); the cache is  *)
(* replaced only when the cycle ran to completion.                        *)

MaxCycles == 3

Published_list_only(list, ts) == [ranked |-> list, ts |-> 0]

\* the value one atomic replace stores: ranked list plus refresh timestamp
Published(list, ts) == [ranked |-> list, ts |-> ts]

\* Idle -> Running on timer expiry
StartCycle ==
    /\ sstate = "idle"
    /\ clock < MaxCycles
    /\ sstate' = "running"
    /\ clock' = clock + 1
    /\ pc' = "list"
    /\ products' = <<>>
    /\ idx' = 1
    /\ all_snaps' = <<>>
    /\ eff_min' = 0
    /\ eff_max' = 0
    /\ candidates' = <<>>
    /\ widenings' = 0
    /\ ranked_input' = <<>>
    /\ ranked' = <<>>
    /\ UNCHANGED <<cfg, upstream, unitVars, candleVars, cache, seen,
                   completed, last>>

\* Running -> Idle, the pipeline completed: one atomic replace
Publish ==
    /\ sstate = "running"
    /\ pc \in {"season", "render"}
    /\ cache' = Published(ranked, clock)
    /\ completed' = completed \cup {[ranked |-> ranked, ts |-> clock]}
    /\ last' = "ok"
    /\ sstate' = "idle"
    /\ pc' = "off"
    /\ UNCHANGED <<cfg, upstream, unitVars, products, idx, all_snaps, eff_min,
                   eff_max, candidates, widenings, ranked_input, ranked,
                   candleVars, clock, seen>>

\* Running -> Idle, the pipeline raised: the cycle is abandoned
Abandon ==
    /\ sstate = "running"
    /\ pc = "raised"
    /\ last' = "failed"
    /\ sstate' = "idle"
    /\ pc' = "off"
    /\ UNCHANGED <<cfg, upstream, unitVars, products, idx, all_snaps, eff_min,
                   eff_max, candidates, widenings, ranked_input, ranked,
                   candleVars, clock, cache, seen, completed>>

\* a request handler reads the cache
Read ==
    /\ sstate # "off"
    /\ seen' = cache
    /\ UNCHANGED <<cfg, upstream, unitVars, handlerVars, candleVars, sstate,
                   clock, cache, completed, last>>

Cycle == StartCycle \/ Pipeline \/ Publish \/ Abandon

SchedNext == Cycle \/ Read

SchedExchange ==
    [catalog  |-> <<Catalog[1], Catalog[3]>>,
     readings |-> {Reading(200, Num(199), Num(200), 180, 210, 170, 100000)}]

SchedInit ==
    /\ cfg = DefaultConfig
    /\ upstream = SchedExchange
    /\ UnitIdle
    /\ HandlerStart("off")
    /\ CandleIdle
    /\ sstate = "idle"
    /\ clock = 0
    /\ cache = EmptyCache
    /\ seen = EmptyCache
    /\ completed = {}
    /\ last = "none"

\* the scheduler's loop never stops between or within cycles
SchedSpec == SchedInit /\ [][SchedNext]_vars /\ WF_vars(Cycle)

---------------------------------------------------------------------------
(* C7 *)

FullResults == completed \cup {EmptyCache}

=============================================================================
